---- MODULE Spec2Model ----
(***************************************************************************)
(* A model of the finite-state-machine engine of transitions/core.py:      *)
(* State, Transition, EventData, Event and Machine.                        *)
(*                                                                         *)
(* Names of states and triggers are kept as the sequence of their          *)
(* '_'-separated terms (the name hot_gas is <<"hot", "gas">>), so that     *)
(* name.split('_') and '_'.join(terms) of Machine.__getattr__ are the      *)
(* sequence operations they are in the code.  Callback identifiers are     *)
(* never parsed and are plain strings.                                     *)
(***************************************************************************)
EXTENDS Integers, Sequences, FiniteSets, TLC

VARIABLES
    state_objs,     \* the State instances that exist: object id -> State
    states,         \* Machine.states: state name -> object id
    events,         \* Machine.events: trigger name -> Event
    lists,          \* the list objects held by Transition.before / .after
    current_state,  \* Machine.current_state: an object id
    model_state,    \* model.state
    model_attrs,    \* the callables the Machine has bound on the model
    stack,          \* the running Event.trigger / Transition.execute frames
    log,            \* what the running (or last) trigger call has invoked
    result,         \* how the last operation on the Machine ended
    pending,        \* the registration function __getattr__ last returned
    send_event      \* Machine.send_event

vars == <<state_objs, states, events, lists, current_state, model_state,
          model_attrs, stack, log, result, pending, send_event>>

-----------------------------------------------------------------------------
(* Bounds of the model *)

\* at most this many Transitions are filed over all Events
MaxTransitions == 3

\* at most this many identifiers are registered through returned functions
MaxLateCallbacks == 1
MaxReentries == 1

-----------------------------------------------------------------------------
(* Python values passed as arguments: None, a string, a list *)

None == [t |-> "none", v |-> <<>>]
Str(x) == [t |-> "str", v |-> <<x>>]
List(xs) == [t |-> "list", v |-> xs]

\* truthiness of an argument, as in `if on_enter`
Truthy(obj) ==
    \/ obj.t = "list" /\ obj.v # <<>>
    \/ obj.t = "str" /\ obj.v[1] # ""

listify(obj) == IF obj.t \in {"list", "none"} THEN obj ELSE List(<<obj.v[1]>>)

-----------------------------------------------------------------------------
(* The names the model draws its inputs from *)

Solid == <<"solid">>
Liquid == <<"liquid">>
HotGas == <<"hot", "gas">>
Plasma == <<"plasma">>          \* never registered as a state
Melt == <<"melt">>
HeatUp == <<"heat", "up">>
Freeze == <<"freeze">>          \* never registered as a trigger
Star == <<"*">>

-----------------------------------------------------------------------------
(* State *)

State_init(name, on_enter, on_exit) ==
    [name |-> name,
     on_enter |-> IF Truthy(on_enter) THEN listify(on_enter).v ELSE <<>>,
     on_exit |-> IF Truthy(on_exit) THEN listify(on_exit).v ELSE <<>>]

\* (an add_callback that puts func at the head of the list)
State_add_callback_front(st, trigger, func) ==
    IF trigger = "enter" THEN [st EXCEPT !.on_enter = <<func>> \o @]
    ELSE [st EXCEPT !.on_exit = <<func>> \o @]

\* State.add_callback: the list named 'on_' + trigger gets func appended
State_add_callback(st, trigger, func) ==
    IF trigger = "enter" THEN [st EXCEPT !.on_enter = Append(@, func)]
    ELSE [st EXCEPT !.on_exit = Append(@, func)]

-----------------------------------------------------------------------------
(* Transition *)

\* before and after are references to list objects of `lists`; id is the
\* identity of the new instance, the number of Transitions made so far
Transition_init(id, source, dest, conditions, before_ref, after_ref) ==
    [id |-> id,
     source |-> source,
     dest |-> dest,
     before |-> before_ref,
     after |-> after_ref,
     conditions |-> IF conditions.t = "none" THEN <<>> ELSE listify(conditions).v]

\* the content of the list `[] if x is None else listify(x)`
CallbackListOf(x) == IF x.t = "none" THEN <<>> ELSE listify(x).v

\* listify returns a list argument itself, and a new list for a string
IsSharedList(x) == x.t = "list"

-----------------------------------------------------------------------------
(* Event *)

Event_init(name) == [name |-> name, transitions |-> <<>>]

\* the keys of the defaultdict Event.transitions
Keys(ev) == DOMAIN ev.transitions

Event_add_transition(ev, transition) ==
    LET source == transition.source IN
    IF source \in Keys(ev)
    THEN [ev EXCEPT !.transitions[source] = Append(@, transition)]
    ELSE [ev EXCEPT !.transitions =
            [s \in Keys(ev) \cup {source} |->
                IF s = source THEN <<transition>> ELSE ev.transitions[s]]]

-----------------------------------------------------------------------------
(* Machine: construction *)

\* The State instances that exist.  Object 1 and object 2 are given to the
\* constructor in `states`; object 3 is an instance the caller holds and may
\* register later or hand to set_state.
InitialObjects ==
    << State_init(Solid, None, Str("x1")),
       State_init(Liquid, List(<<"e1">>), List(<<"x2">>)),
       State_init(HotGas, Str("e2"), None) >>

ConstructorStates == <<1, 2>>

\* the loop over `states` in Machine.__init__: the registry it builds
RegistryOf(objs, ids) ==
    [n \in {objs[ids[k]].name : k \in DOMAIN ids} |->
        ids[CHOOSE k \in DOMAIN ids :
                /\ objs[ids[k]].name = n
                /\ \A j \in DOMAIN ids : objs[ids[j]].name = n => j <= k]]

\* the is_<name> predicates the loop binds on the model
IsAttr(name) == <<"is", name>>
TriggerAttr(name) == <<"trigger", name>>

NoResult(op, name) ==
    [op |-> op, name |-> name, outcome |-> "ok", printed |-> <<>>,
     pre_current |-> 0, pre_model |-> <<>>]

\* Machine.is_state
is_state(state) == state_objs[current_state].name = state

\* Machine.get_state: the lookup fails for an unregistered name
get_state_fails(state) == state \notin DOMAIN states
get_state(state) == states[state]

\* Machine.set_state, given the State instance: the two assignments
set_state_current(obj) == obj

\* (a set_state that leaves model.state as it was)
set_state_model_stale(obj) == model_state

set_state_model(obj) == state_objs[obj].name

\* No trigger call is running.  The configuration operations and set_state
\* are called then; a caller that got a registration function from
\* __getattr__ calls it, or drops it, before its next call on the Machine.
Idle == stack = <<>>

\* how an operation on the Machine ends
Ends(op, name, outcome, printed) ==
    result' = [op |-> op, name |-> name, outcome |-> outcome,
               printed |-> printed,
               pre_current |-> IF op = "trigger" THEN current_state ELSE 0,
               pre_model |-> IF op = "trigger" THEN model_state ELSE <<>>]

\* Machine.__init__ with the given send_event, two states and no transitions
Machine_init(flag) ==
    /\ send_event = flag
    /\ state_objs = InitialObjects
    /\ states = RegistryOf(InitialObjects, ConstructorStates)
    /\ events = <<>>
    /\ lists = <<>>
    /\ \E initial \in {Solid, Liquid} :
          /\ current_state = RegistryOf(InitialObjects, ConstructorStates)[initial]
          /\ model_state = InitialObjects[current_state].name
    /\ model_attrs = {IsAttr(InitialObjects[ConstructorStates[k]].name) :
                         k \in DOMAIN ConstructorStates}
    /\ stack = <<>>
    /\ log = <<>>
    /\ result = NoResult("init", <<>>)
    /\ pending = <<>>

\* send_event is left at its default
Init == Machine_init(FALSE)

-----------------------------------------------------------------------------
(* Machine: registering a State instance after construction, as the body   *)
(* of the constructor's loop does                                          *)

RegisterState(obj) ==
    /\ Idle
    /\ obj \in DOMAIN state_objs
    /\ state_objs[obj].name \notin DOMAIN states
    /\ states' = [n \in DOMAIN states \cup {state_objs[obj].name} |->
                    IF n = state_objs[obj].name THEN obj ELSE states[n]]
    /\ model_attrs' = model_attrs \cup {IsAttr(state_objs[obj].name)}
    /\ Ends("register", state_objs[obj].name, "ok", <<>>)
    /\ log' = <<>>
    /\ pending' = <<>>
    /\ UNCHANGED <<send_event, state_objs, events, lists, current_state, model_state, stack>>

-----------------------------------------------------------------------------
(* Machine.set_state called by the user *)

SetStateByName(name) ==
    /\ Idle
    /\ IF get_state_fails(name)
       THEN /\ Ends("set_state", name, "ValueError", <<>>)
            /\ UNCHANGED <<current_state, model_state>>
       ELSE /\ current_state' = set_state_current(get_state(name))
            /\ model_state' = set_state_model(get_state(name))
            /\ Ends("set_state", name, "ok", <<>>)
    /\ log' = <<>>
    /\ pending' = <<>>
    /\ UNCHANGED <<send_event, state_objs, states, events, lists, model_attrs, stack>>

SetStateByInstance(obj) ==
    /\ Idle
    /\ obj \in DOMAIN state_objs
    /\ current_state' = set_state_current(obj)
    /\ model_state' = set_state_model(obj)
    /\ Ends("set_state", state_objs[obj].name, "ok", <<>>)
    /\ log' = <<>>
    /\ pending' = <<>>
    /\ UNCHANGED <<send_event, state_objs, states, events, lists, model_attrs, stack>>

-----------------------------------------------------------------------------
(* Machine.add_transition *)

\* the Transitions filed over all Events
RECURSIVE SumLen(_, _)
SumLen(f, keys) ==
    IF keys = {} THEN 0
    ELSE LET k == CHOOSE x \in keys : TRUE
         IN Len(f[k]) + SumLen(f, keys \ {k})

RECURSIVE CountTransitions(_, _)
CountTransitions(evs, names) ==
    IF names = {} THEN 0
    ELSE LET n == CHOOSE x \in names : TRUE
         IN SumLen(evs[n].transitions, Keys(evs[n]))
            + CountTransitions(evs, names \ {n})

\* the orders in which a dict may hand out its keys
KeyOrders(keys) ==
    {o \in [1..Cardinality(keys) -> keys] :
        \A i, j \in 1..Cardinality(keys) : o[i] = o[j] => i = j}

\* (an add_transition that takes '*' for the name of a state)
ResolveSources_literal(source) ==
    IF source.t = "str" THEN {<<source.v[1]>>} ELSE {source.v}

\* lines 232-233: a string source is the wildcard or a single name, anything
\* else is iterated as it is
ResolveSources(source) ==
    IF source.t = "str"
    THEN IF source.v[1] = Star THEN KeyOrders(DOMAIN states)
         ELSE {<<source.v[1]>>}
    ELSE {source.v}

\* (an add_transition that makes a new Event on every call)
EventsWith_recreate(trigger) ==
    [n \in DOMAIN events \cup {trigger} |->
        IF n = trigger THEN Event_init(trigger) ELSE events[n]]

\* lines 228-229: the Event is created on the first use of the trigger name
EventsWith(trigger) ==
    IF trigger \in DOMAIN events THEN events
    ELSE [n \in DOMAIN events \cup {trigger} |->
            IF n = trigger THEN Event_init(trigger) ELSE events[n]]

\* lines 235-237: file ts[k], ts[k+1], ... in turn
RECURSIVE FileAll(_, _, _)
FileAll(ev, ts, k) ==
    IF k > Len(ts) THEN ev
    ELSE FileAll(Event_add_transition(ev, ts[k]), ts, k + 1)

\* The list objects of the call.  A list argument is one object, which every
\* Transition of the call then holds; a string or None argument makes one
\* new list per Transition.
SharedLists(before, after) ==
    (IF IsSharedList(before) THEN <<CallbackListOf(before)>> ELSE <<>>)
    \o (IF IsSharedList(after) THEN <<CallbackListOf(after)>> ELSE <<>>)

OwnLists(before, after) ==
    (IF IsSharedList(before) THEN <<>> ELSE <<CallbackListOf(before)>>)
    \o (IF IsSharedList(after) THEN <<>> ELSE <<CallbackListOf(after)>>)

NewLists(before, after, n) ==
    LET own == OwnLists(before, after)
    IN SharedLists(before, after)
       \o [j \in 1..(n * Len(own)) |-> own[((j - 1) % Len(own)) + 1]]

BeforeRef(base, before, after, k) ==
    IF IsSharedList(before) THEN base + 1
    ELSE base + Len(SharedLists(before, after))
         + (k - 1) * Len(OwnLists(before, after)) + 1

AfterRef(base, before, after, k) ==
    IF IsSharedList(after) THEN base + Len(SharedLists(before, after))
    ELSE base + Len(SharedLists(before, after))
         + k * Len(OwnLists(before, after))

add_transition(trigger, source, dest, conditions, before, after) ==
    /\ Idle
    /\ \E srcs \in ResolveSources(source) :
          LET base == Len(lists)
              made == CountTransitions(events, DOMAIN events)
              ts == [k \in 1..Len(srcs) |->
                        Transition_init(made + k, srcs[k], dest, conditions,
                                        BeforeRef(base, before, after, k),
                                        AfterRef(base, before, after, k))]
          IN /\ made + Len(srcs) <= MaxTransitions
             /\ events' = [EventsWith(trigger) EXCEPT
                              ![trigger] = FileAll(@, ts, 1)]
             /\ lists' = lists \o NewLists(before, after, Len(srcs))
    /\ model_attrs' = model_attrs \cup {TriggerAttr(trigger)}
    /\ Ends("add_transition", trigger, "ok", <<>>)
    /\ log' = <<>>
    /\ pending' = <<>>
    /\ UNCHANGED <<send_event, state_objs, states, current_state, model_state, stack>>

\* the transition descriptors the model draws from
Descriptors ==
    { [trigger |-> Melt, source |-> Str(Solid), dest |-> Liquid,
       conditions |-> None, before |-> Str("b1"), after |-> Str("a1")],
      [trigger |-> Melt, source |-> Str(Solid), dest |-> HotGas,
       conditions |-> List(<<"g1", "g2">>), before |-> List(<<"b2">>),
       after |-> None],
      [trigger |-> HeatUp, source |-> Str(Star), dest |-> HotGas,
       conditions |-> Str("g1"), before |-> List(<<"b1", "b2">>),
       after |-> List(<<"a1">>)],
      [trigger |-> HeatUp, source |-> List(<<Liquid, Plasma>>), dest |-> Solid,
       conditions |-> None, before |-> None, after |-> None] }

AddTransition ==
    \E d \in Descriptors :
        add_transition(d.trigger, d.source, d.dest, d.conditions,
                       d.before, d.after)

-----------------------------------------------------------------------------
(* Machine.__getattr__: the naming-convention resolver *)

\* '_'.join(terms): joining no terms gives the empty string, whose split is
\* the one empty term
JoinTerms(terms) == IF terms = <<>> THEN <<"">> ELSE terms

\* terms[n:] of Python, n counted from 0
TermsFrom(terms, n) == SubSeq(terms, n + 1, Len(terms))

\* str.startswith over the terms of the model, none of which extends
\* "enter" or "exit"
BeginsWith(term, prefix) == term = prefix

\* name.startswith('on_enter') or name.startswith('on_exit')
StartsWithOnEnterOrExit(terms) ==
    /\ Len(terms) >= 2
    /\ terms[1] = "on"
    /\ (BeginsWith(terms[2], "enter") \/ BeginsWith(terms[2], "exit"))

\* line 241
IsEventPrefix(terms) == terms[1] \in {"before", "after"}

\* lines 242, 249: the name looked up
EventNameOf(terms) == JoinTerms(TermsFrom(terms, 1))
StateNameOf(terms) == JoinTerms(TermsFrom(terms, 2))

\* (a test for a registered event, inverted)
EventUnregistered_inverted(name) == name \in DOMAIN events

\* line 244
EventUnregistered(name) == name \notin DOMAIN events

\* class Event defines __init__, add_transition and trigger, and no
\* add_callback: reading self.events[name].add_callback at line 246 fails
EventAttributes == {"name", "machine", "transitions", "add_transition", "trigger"}

getattr(terms) ==
    /\ Idle
    /\ log' = <<>>
    /\ IF IsEventPrefix(terms)
       THEN /\ pending' = <<>>
            /\ IF EventUnregistered(EventNameOf(terms))
               THEN Ends("getattr", terms, "MachineError", <<EventNameOf(terms)>>)
               ELSE IF "add_callback" \in EventAttributes
                    THEN Ends("getattr", terms, "partial", <<EventNameOf(terms)>>)
                    ELSE Ends("getattr", terms, "AttributeError",
                              <<EventNameOf(terms)>>)
       ELSE IF StartsWithOnEnterOrExit(terms)
       THEN IF get_state_fails(StateNameOf(terms))
            THEN /\ pending' = <<>>
                 /\ Ends("getattr", terms, "ValueError", <<>>)
            ELSE /\ pending' = <<[obj |-> get_state(StateNameOf(terms)),
                                  trigger |-> terms[2]]>>
                 /\ Ends("getattr", terms, "partial", <<>>)
       ELSE /\ pending' = <<>>
            /\ Ends("getattr", terms, "None", <<>>)
    /\ UNCHANGED <<send_event, state_objs, states, events, lists, current_state,
                   model_state, model_attrs, stack>>

\* the attribute names the model reads on the Machine
ResolverNames ==
    { <<"before">> \o Melt, <<"after">> \o HeatUp, <<"before">> \o Freeze,
      <<"on", "enter">> \o Liquid, <<"on", "exit">> \o HotGas,
      <<"on", "enter">> \o Plasma, <<"shape">> }

GetAttr == \E terms \in ResolverNames : getattr(terms)

\* the identifiers the model registers through a returned function
RegisteredLater == {"cb"}

RECURSIVE CallbackCount(_, _)
CallbackCount(objs, k) ==
    IF k > Len(objs) THEN 0
    ELSE Len(objs[k].on_enter) + Len(objs[k].on_exit) + CallbackCount(objs, k + 1)


\* calling the function __getattr__ returned: State.add_callback(trigger, func)
CallPartial(func) ==
    /\ Idle
    /\ pending # <<>>
    /\ LET p == pending[1] IN
       IF p.trigger \in {"enter", "exit"}
       THEN /\ CallbackCount(state_objs, 1)
                    < CallbackCount(InitialObjects, 1) + MaxLateCallbacks
            /\ state_objs' = [state_objs EXCEPT
                                ![p.obj] = State_add_callback(@, p.trigger, func)]
            /\ Ends("call_partial", state_objs[p.obj].name, "ok", <<>>)
       ELSE /\ Ends("call_partial", state_objs[p.obj].name, "AttributeError", <<>>)
            /\ UNCHANGED state_objs
    /\ pending' = <<>>
    /\ log' = <<>>
    /\ UNCHANGED <<send_event, states, events, lists, current_state, model_state,
                   model_attrs, stack>>

\* Transition.add_callback: the list the Transition holds under `trigger` gets
\* func at its end
Transition_add_callback(ls, t, trigger, func) ==
    [ls EXCEPT ![IF trigger = "before" THEN t.before ELSE t.after] = Append(@, func)]

\* how many times func stands in the lists ls[k], ls[k+1], ...
RECURSIVE Occurrences(_, _, _)
Occurrences(ls, func, k) ==
    IF k > Len(ls) THEN 0
    ELSE Len(SelectSeq(ls[k], LAMBDA x : x = func)) + Occurrences(ls, func, k + 1)

\* the caller takes a Transition out of machine.events and calls its
\* add_callback
TransitionAddCallback ==
    /\ Idle
    /\ \E e \in DOMAIN events : \E source \in Keys(events[e]) :
          \E k \in DOMAIN events[e].transitions[source] :
             \E trigger \in {"before", "after"} : \E func \in RegisteredLater :
                /\ Occurrences(lists, func, 1) < MaxLateCallbacks
                /\ lists' = Transition_add_callback(
                                lists, events[e].transitions[source][k], trigger, func)
                /\ Ends("transition_add_callback", e, "ok", <<>>)
    /\ pending' = <<>>
    /\ log' = <<>>
    /\ UNCHANGED <<send_event, state_objs, states, events, current_state,
                   model_state, model_attrs, stack>>

-----------------------------------------------------------------------------
(* Event.trigger and Transition.execute                                    *)
(*                                                                         *)
(* A trigger call runs as a frame on `stack`.  Every call of a guard or a  *)
(* callback on the model is one step, whose outcome (the value returned,   *)
(* or a failure raised) is the model's choice; the engine's own code       *)
(* between two such calls runs in the steps in between.                    *)

\* the steps of Transition.execute, lines 71-80, in the order of the code
ExecuteOrder == <<"conditions", "before", "exit", "set_state", "enter", "after", "return">>

\* (an execute that enters the destination before it sets the state)
NextPhase_enter_first(phase) ==
    LET order == <<"conditions", "before", "exit", "enter", "set_state", "after", "return">>
    IN order[(CHOOSE k \in DOMAIN order : order[k] = phase) + 1]

NextPhase(phase) ==
    ExecuteOrder[(CHOOSE k \in DOMAIN ExecuteOrder : ExecuteOrder[k] = phase) + 1]

\* (a trigger that never refuses)
InvalidTrigger_never(ev, state_name) == FALSE

\* line 150
InvalidTrigger(ev, state_name) == state_name \notin Keys(ev)

\* self.transitions[state_name] of a defaultdict(list)
TransitionsFor(ev, state_name) ==
    IF state_name \in Keys(ev) THEN ev.transitions[state_name] ELSE <<>>

\* (a trigger that uses up the candidates it reads)
DefaultDictRead_clear(ev, key) ==
    [ev EXCEPT !.transitions =
        [s \in Keys(ev) \cup {key} |->
            IF s = key THEN <<>> ELSE ev.transitions[s]]]

\* line 153: self.transitions[state_name] read from a defaultdict(list), which
\* files an empty list under a key it does not have
DefaultDictRead(ev, key) ==
    IF key \in Keys(ev) THEN ev
    ELSE [ev EXCEPT !.transitions =
            [s \in Keys(ev) \cup {key} |->
                IF s = key THEN <<>> ELSE ev.transitions[s]]]

Top == stack[Len(stack)]
Candidates(f) == TransitionsFor(events[f.event], f.state_name)
Running(f) == f.cand <= Len(Candidates(f))
Candidate(f) == Candidates(f)[f.cand]

\* (an execute that runs the exit-callbacks of whatever state is current)
StepList_current_exit(f) ==
    CASE f.phase = "conditions" -> Candidate(f).conditions
      [] f.phase = "before" -> lists[Candidate(f).before]
      [] f.phase = "exit" -> state_objs[current_state].on_exit
      [] f.phase = "enter" -> state_objs[get_state(Candidate(f).dest)].on_enter
      [] f.phase = "after" -> lists[Candidate(f).after]
      [] OTHER -> <<>>

\* the identifiers the frame's current step iterates over
StepList(f) ==
    CASE f.phase = "conditions" -> Candidate(f).conditions
      [] f.phase = "before" -> lists[Candidate(f).before]
      [] f.phase = "exit" -> state_objs[get_state(Candidate(f).source)].on_exit
      [] f.phase = "enter" -> state_objs[get_state(Candidate(f).dest)].on_enter
      [] f.phase = "after" -> lists[Candidate(f).after]
      [] OTHER -> <<>>

\* (an execute that looks the destination up before it calls anything)
StepLookup_early(f) ==
    CASE f.phase = "exit" -> <<Candidate(f).source>>
      [] f.phase \in {"before", "enter", "set_state"} -> <<Candidate(f).dest>>
      [] OTHER -> <<>>

\* the name a step looks up in the registry before it iterates
StepLookup(f) ==
    CASE f.phase = "exit" -> <<Candidate(f).source>>
      [] f.phase = "enter" -> <<Candidate(f).dest>>
      [] f.phase = "set_state" -> <<Candidate(f).dest>>
      [] OTHER -> <<>>

LookupFails(f) == StepLookup(f) # <<>> /\ get_state_fails(StepLookup(f)[1])

\* the arguments a guard or callback is called with: every call, at lines
\* 27, 31, 72, 74 and 79, is getattr(model, name)()
PassedArguments(f) == <<>>

Observed(kind, func, f, ret) ==
    [kind |-> kind, func |-> func, cand |-> f.cand,
     current |-> state_objs[current_state].name, model |-> model_state,
     ret |-> ret, passed |-> PassedArguments(f), call |-> f.args,
     depth |-> Len(stack), reenter |-> <<>>]

StillRunning == result' = result

Returns(outcome) == result' = [result EXCEPT !.outcome = outcome]

ReplaceTop(f) == stack' = [stack EXCEPT ![Len(stack)] = f]

\* (a trigger that swallows a failure and tries the next candidate)
Raise_try_next(outcome) ==
    /\ stack' = [stack EXCEPT ![Len(stack)] =
                    [@ EXCEPT !.cand = @ + 1, !.phase = "conditions", !.i = 1]]
    /\ result' = result

\* a failure propagates out of every frame
Raise(outcome) ==
    /\ stack' = <<>>
    /\ Returns(outcome)

\* lines 149-153: the call of the trigger bound on the model, with args
TriggerCall(e, args) ==
    /\ Idle
    /\ TriggerAttr(e) \in model_attrs
    /\ log' = <<>>
    /\ pending' = <<>>
    /\ LET state_name == state_objs[current_state].name IN
       IF InvalidTrigger(events[e], state_name)
       THEN /\ Ends("trigger", e, "MachineError", <<>>)
            /\ UNCHANGED <<stack, events>>
       ELSE /\ Ends("trigger", e, "running", <<>>)
            /\ events' = [events EXCEPT ![e] = DefaultDictRead(@, state_name)]
            /\ stack' = <<[event |-> e, state_name |-> state_name, cand |-> 1,
                           phase |-> "conditions", i |-> 1,
                           ed_state |-> current_state, args |-> args]>>
    /\ UNCHANGED <<send_event, state_objs, states, lists, current_state,
                   model_state, model_attrs>>

\* the trigger called with no arguments
Trigger(e) == TriggerCall(e, <<>>)

\* (a loop that takes a false guard for a true one)
AfterCondition_inverted(f, value) ==
    IF ~value THEN [f EXCEPT !.i = @ + 1]
    ELSE [f EXCEPT !.cand = @ + 1, !.phase = "conditions", !.i = 1]

\* (a loop that goes on to the next guard whatever the value)
AfterCondition_all(f, value) == [f EXCEPT !.i = @ + 1]

\* what the loop over self.conditions does with a guard's value
AfterCondition(f, value) ==
    IF value THEN [f EXCEPT !.i = @ + 1]
    ELSE [f EXCEPT !.cand = @ + 1, !.phase = "conditions", !.i = 1]

\* lines 71-72: one guard is called
EvalCondition ==
    /\ ~Idle
    /\ Running(Top)
    /\ Top.phase = "conditions"
    /\ Top.i <= Len(StepList(Top))
    /\ \E ret \in {"True", "False", "raise"} :
          /\ log' = Append(log, Observed("conditions", StepList(Top)[Top.i], Top, ret))
          /\ IF ret = "raise" THEN Raise("CallbackError")
             ELSE /\ ReplaceTop(AfterCondition(Top, ret = "True"))
                  /\ StillRunning
    /\ UNCHANGED <<send_event, state_objs, states, events, lists, current_state,
                   model_state, model_attrs, pending>>

\* lines 74, 31, 27, 79: one before-, exit-, enter- or after-callback is called
RunCallback(phase) ==
    /\ ~Idle
    /\ Running(Top)
    /\ Top.phase = phase
    /\ ~LookupFails(Top)
    /\ Top.i <= Len(StepList(Top))
    /\ \E ret \in {"ok", "raise"} :
          /\ log' = Append(log, Observed(phase, StepList(Top)[Top.i], Top, ret))
          /\ IF ret = "raise" THEN Raise("CallbackError")
             ELSE /\ ReplaceTop([Top EXCEPT !.i = @ + 1])
                  /\ StillRunning
    /\ UNCHANGED <<send_event, state_objs, states, events, lists, current_state,
                   model_state, model_attrs, pending>>

CallBefore == RunCallback("before")
CallExit == RunCallback("exit")
CallEnter == RunCallback("enter")
CallAfter == RunCallback("after")

\* a loop of execute has run through its list: the next step begins
LoopDone ==
    /\ ~Idle
    /\ Running(Top)
    /\ Top.phase \in {"conditions", "before", "exit", "enter", "after"}
    /\ ~LookupFails(Top)
    /\ Top.i > Len(StepList(Top))
    /\ ReplaceTop([Top EXCEPT !.phase = NextPhase(Top.phase), !.i = 1])
    /\ StillRunning
    /\ UNCHANGED <<send_event, state_objs, states, events, lists, current_state,
                   model_state, model_attrs, log, pending>>

\* lines 75, 76, 78: machine.get_state of an unregistered name
LookupError ==
    /\ ~Idle
    /\ Running(Top)
    /\ LookupFails(Top)
    /\ Raise("ValueError")
    /\ UNCHANGED <<send_event, state_objs, states, events, lists, current_state,
                   model_state, model_attrs, log, pending>>

\* lines 76-77: machine.set_state(self.dest) and event_data.update()
SetDest ==
    /\ ~Idle
    /\ Running(Top)
    /\ Top.phase = "set_state"
    /\ ~LookupFails(Top)
    /\ current_state' = set_state_current(get_state(Candidate(Top).dest))
    /\ model_state' = set_state_model(get_state(Candidate(Top).dest))
    /\ ReplaceTop([Top EXCEPT !.phase = NextPhase(Top.phase), !.i = 1,
                              !.ed_state = current_state'])
    /\ StillRunning
    /\ UNCHANGED <<send_event, state_objs, states, events, lists, model_attrs, log, pending>>

\* (a trigger that goes on to the next candidate after a success)
ReturnTrue_tries_rest ==
    /\ stack # <<>>
    /\ stack[Len(stack)].cand <= Len(events[stack[Len(stack)].event].transitions[stack[Len(stack)].state_name])
    /\ stack[Len(stack)].phase = "return"
    /\ IF stack[Len(stack)].cand < Len(events[stack[Len(stack)].event].transitions[stack[Len(stack)].state_name])
       THEN /\ stack' = [stack EXCEPT ![Len(stack)] =
                           [@ EXCEPT !.cand = @ + 1, !.phase = "conditions", !.i = 1]]
            /\ result' = result
       ELSE /\ stack' = SubSeq(stack, 1, Len(stack) - 1)
            /\ result' = [result EXCEPT !.outcome = "True"]
    /\ UNCHANGED <<send_event, state_objs, states, events, lists, current_state,
                   model_state, model_attrs, log, pending>>

\* The trigger of the top frame returns.  Called from the model it ends the
\* operation; called from inside a callback of the frame below, it is written
\* down and that callback returns, so the loop below goes on to its next
\* identifier.
Return(value) ==
    IF Len(stack) = 1
    THEN /\ stack' = <<>>
         /\ Returns(value)
         /\ UNCHANGED log
    ELSE /\ stack' = [SubSeq(stack, 1, Len(stack) - 1) EXCEPT
                         ![Len(stack) - 1].i = @ + 1]
         /\ StillRunning
         /\ log' = Append(log, Observed("returned", "", Top, value))

\* line 80 and line 154: execute returns True, and so does trigger
ReturnTrue ==
    /\ ~Idle
    /\ Running(Top)
    /\ Top.phase = "return"
    /\ Return("True")
    /\ UNCHANGED <<send_event, state_objs, states, events, lists, current_state,
                   model_state, model_attrs, pending>>

\* line 155: no candidate is left
ReturnFalse ==
    /\ ~Idle
    /\ ~Running(Top)
    /\ Return("False")
    /\ UNCHANGED <<send_event, state_objs, states, events, lists, current_state,
                   model_state, model_attrs, pending>>

\* (a nested trigger that looks its candidates up under the state the
\* outermost trigger was called from)
state_name_outermost(stk) == stk[1].state_name

\* line 149 in a trigger called while the frames stk are running
state_name(stk) == state_objs[current_state].name

\* the re-entrant calls made since the trigger was called from the model
Reentries == Len(SelectSeq(log, LAMBDA en : en.ret = "reenter"))

\* The callbacks of the model whose bodies may call a trigger of the model,
\* with the trigger each calls: e1 is an enter-callback of liquid, a1 an
\* after-callback and b2 a before-callback of the descriptors.
CallsTrigger == {<<"e1", HeatUp>>, <<"a1", HeatUp>>, <<"b2", Melt>>}

\* lines 74, 31, 27, 79 with a callback that calls the trigger e of the model
\* and does nothing else: lines 149-153 run inside the callback, and a failure
\* of the nested call leaves through the callback
Reenter(phase, e) ==
    /\ ~Idle
    /\ Running(Top)
    /\ Top.phase = phase
    /\ ~LookupFails(Top)
    /\ Top.i <= Len(StepList(Top))
    /\ <<StepList(Top)[Top.i], e>> \in CallsTrigger
    /\ Reentries < MaxReentries
    /\ TriggerAttr(e) \in model_attrs
    /\ log' = Append(log, [Observed(phase, StepList(Top)[Top.i], Top, "reenter")
                              EXCEPT !.reenter = e])
    /\ IF InvalidTrigger(events[e], state_name(stack))
       THEN /\ Raise("MachineError")
            /\ UNCHANGED events
       ELSE /\ stack' = Append(stack,
                            [event |-> e, state_name |-> state_name(stack),
                             cand |-> 1, phase |-> "conditions", i |-> 1,
                             ed_state |-> current_state, args |-> <<>>])
            /\ StillRunning
            /\ events' = [events EXCEPT
                             ![e] = DefaultDictRead(@, state_name(stack))]
    /\ UNCHANGED <<send_event, state_objs, states, lists, current_state,
                   model_state, model_attrs, pending>>

-----------------------------------------------------------------------------
(* The specification *)

Next ==
    \/ AddTransition
    \/ \E obj \in DOMAIN state_objs : RegisterState(obj)
    \/ \E name \in {Solid, Liquid, HotGas, Plasma} : SetStateByName(name)
    \/ \E obj \in DOMAIN state_objs : SetStateByInstance(obj)
    \/ GetAttr
    \/ \E func \in RegisteredLater : CallPartial(func)
    \/ \E e \in {Melt, HeatUp} : Trigger(e)
    \/ EvalCondition
    \/ CallBefore
    \/ CallExit
    \/ CallEnter
    \/ CallAfter
    \/ LoopDone
    \/ LookupError
    \/ SetDest
    \/ ReturnTrue
    \/ ReturnFalse

Spec == Init /\ [][Next]_vars

-----------------------------------------------------------------------------
(* The specification of Machines made with either value of send_event, whose *)
(* triggers are called with and without arguments                            *)

TriggerArguments == {<<>>, <<"hot">>}

NextSendEvent ==
    \/ AddTransition
    \/ \E e \in {Melt, HeatUp} : \E args \in TriggerArguments : TriggerCall(e, args)
    \/ EvalCondition
    \/ CallBefore
    \/ CallExit
    \/ CallEnter
    \/ CallAfter
    \/ LoopDone
    \/ LookupError
    \/ SetDest
    \/ ReturnTrue
    \/ ReturnFalse

SpecSendEvent == (\E flag \in BOOLEAN : Machine_init(flag)) /\ [][NextSendEvent]_vars

-----------------------------------------------------------------------------
(* The specification of a Machine whose before-, enter- and after-callbacks  *)
(* may call a trigger of the model                                           *)

NextReentrant ==
    \/ AddTransition
    \/ \E obj \in DOMAIN state_objs : RegisterState(obj)
    \/ \E e \in {Melt, HeatUp} : Trigger(e)
    \/ \E phase \in {"before", "enter", "after"} :
          \E e \in {Melt, HeatUp} : Reenter(phase, e)
    \/ EvalCondition
    \/ CallBefore
    \/ CallExit
    \/ CallEnter
    \/ CallAfter
    \/ LoopDone
    \/ LookupError
    \/ SetDest
    \/ ReturnTrue
    \/ ReturnFalse

SpecReentrant == Init /\ [][NextReentrant]_vars

-----------------------------------------------------------------------------
(* The specification of a Machine whose caller adds callbacks to the          *)
(* Transitions it has filed                                                   *)

NextAddCallback ==
    \/ AddTransition
    \/ \E obj \in DOMAIN state_objs : RegisterState(obj)
    \/ TransitionAddCallback

SpecAddCallback == Init /\ [][NextAddCallback]_vars

-----------------------------------------------------------------------------
(* What the last trigger call did, read from log and result *)

\* a trigger call was made and it is running or has ended
Called == result.op = "trigger"
Ended == Called /\ Idle
PreName == state_objs[result.pre_current].name

\* the candidates of the call: the Transitions filed under the state the
\* trigger was called from
CalledCandidates == TransitionsFor(events[result.name], PreName)

-----------------------------------------------------------------------------
(* C1 *)

\* C1: at every point after construction model.state is the name of the
\* Machine's current state, every registered state S has its is_S bound on the
\* model, and is_S() is true exactly for the S that model.state names
C1_StateMirrored ==
    /\ model_state = state_objs[current_state].name
    /\ \A S \in DOMAIN states :
          /\ IsAttr(S) \in model_attrs
          /\ is_state(S) <=> (S = model_state)

\* a transition has succeeded and moved the machine into hot_gas
C1_Witness ==
    /\ Ended
    /\ result.outcome = "True"
    /\ result.pre_current # current_state
    /\ model_state = HotGas
    /\ is_state(HotGas) /\ ~is_state(Solid) /\ ~is_state(Liquid)

-----------------------------------------------------------------------------
(* C2 *)

\* C2: a trigger called while the current state has no Transition filed under
\* the event raises the invalid-trigger error, no guard or callback is
\* invoked, and the current state and model.state are as before the call
C2_InvalidTriggerNoEffect ==
    (Called /\ TransitionsFor(events[result.name], PreName) = <<>>)
        => /\ result.outcome = "MachineError"
           /\ Idle
           /\ log = <<>>
           /\ current_state = result.pre_current
           /\ model_state = result.pre_model

\* melt was called in liquid while melt has a Transition from solid only
C2_Witness ==
    /\ Ended
    /\ result.name = Melt
    /\ result.outcome = "MachineError"
    /\ PreName = Liquid
    /\ Keys(events[Melt]) = {Solid}

-----------------------------------------------------------------------------
(* The calls the log holds for one candidate *)

Funcs(entries) == [i \in DOMAIN entries |-> entries[i].func]

\* the calls of the given kinds made for candidate k, in the order made
LogOf(k, kinds) == SelectSeq(log, LAMBDA e : e.cand = k /\ e.kind \in kinds)

CallbackKinds == {"before", "exit", "enter", "after"}

\* a guard of candidate k returned false
Failed(k) == \E i \in DOMAIN log :
                 log[i].cand = k /\ log[i].kind = "conditions" /\ log[i].ret = "False"

\* every guard of candidate k was called, in list order, and returned true
Passed(k) ==
    LET g == LogOf(k, {"conditions"})
    IN /\ Funcs(g) = CalledCandidates[k].conditions
       /\ \A i \in DOMAIN g : g[i].ret = "True"

\* the whole of what a successful execute of transition t calls
FullSequence(t) ==
    t.conditions \o lists[t.before] \o state_objs[states[t.source]].on_exit
    \o state_objs[states[t.dest]].on_enter \o lists[t.after]

-----------------------------------------------------------------------------
(* C3 *)

\* C3: a trigger call that returns has tried the candidates in the order they
\* were added; when it returns true it has taken the first candidate whose
\* guards all returned true: every earlier candidate had a guard return false
\* and none of its callbacks ran, the current state is the taken candidate's
\* destination, the before/after callbacks run are the taken candidate's, and
\* no guard of a later candidate was called; it returns false only when every
\* candidate had a guard return false
C3_FirstPassingCandidate ==
    (Ended /\ result.outcome \in {"True", "False"}) =>
        LET cands == CalledCandidates
            Taken(k) ==
                /\ \A j \in 1..(k - 1) :
                      Failed(j) /\ LogOf(j, CallbackKinds) = <<>>
                /\ Passed(k)
                /\ current_state = states[cands[k].dest]
                /\ model_state = cands[k].dest
                /\ Funcs(SelectSeq(log, LAMBDA e : e.kind = "before"))
                       = lists[cands[k].before]
                /\ Funcs(SelectSeq(log, LAMBDA e : e.kind = "after"))
                       = lists[cands[k].after]
                /\ \A i \in DOMAIN log : log[i].cand <= k
        IN /\ \A i, j \in DOMAIN cands : i < j => cands[i].id < cands[j].id
           /\ result.outcome = "True" => \E k \in DOMAIN cands : Taken(k)
           /\ result.outcome = "False" => \A k \in DOMAIN cands : Failed(k)

\* melt was called in solid with the guarded transition to hot_gas added
\* first and the transition to liquid second; a guard of the first returned
\* false and the second was taken
C3_Witness ==
    /\ Ended
    /\ result.name = Melt
    /\ result.outcome = "True"
    /\ Len(CalledCandidates) = 2
    /\ Failed(1)
    /\ CalledCandidates[1].dest = HotGas
    /\ model_state = Liquid
    /\ Funcs(LogOf(2, {"before", "after"})) = <<"b1", "a1">>

-----------------------------------------------------------------------------
(* C4 *)

KindRank(kind) ==
    CASE kind = "conditions" -> 1 [] kind = "before" -> 2 [] kind = "exit" -> 3
      [] kind = "enter" -> 4 [] kind = "after" -> 5

\* C4: for one candidate the calls are made in the order guards, before, exit,
\* enter, after; guards, before- and exit-callbacks see the source as the
\* current state and as model.state, enter- and after-callbacks see the
\* destination; and a call that returned true has called exactly the taken
\* candidate's guards, its before list, the source's exit list, the
\* destination's enter list and its after list, in this order
C4_ExecuteOrder ==
    Called =>
        /\ \A i \in DOMAIN log :
              LET e == log[i]
                  t == CalledCandidates[e.cand]
              IN /\ e.kind \in {"conditions", "before", "exit"}
                       => e.current = t.source /\ e.model = t.source
                 /\ e.kind \in {"enter", "after"}
                       => e.current = t.dest /\ e.model = t.dest
                 /\ \A j \in DOMAIN log :
                       (i < j /\ log[j].cand = e.cand)
                           => KindRank(e.kind) <= KindRank(log[j].kind)
        /\ (Ended /\ result.outcome = "True") =>
              \E k \in DOMAIN CalledCandidates :
                  /\ ~Failed(k)
                  /\ Funcs(LogOf(k, CallbackKinds \cup {"conditions"}))
                         = FullSequence(CalledCandidates[k])

\* heat_up was called in liquid and went to hot_gas: the guard, the two before
\* callbacks, liquid's exit, hot_gas's enter and the after callback ran
C4_Witness ==
    /\ Ended
    /\ result.outcome = "True"
    /\ Funcs(log) = <<"g1", "b1", "b2", "x2", "e2", "a1">>
    /\ log[4].current = Liquid
    /\ log[5].current = HotGas

-----------------------------------------------------------------------------
(* C5 *)

\* C5: when every candidate of the call has had a guard return false, the
\* call returns false and does not raise, nothing but guards was called, and
\* the current state and model.state are as before the call
C5_AllGuardsFail ==
    (Called /\ CalledCandidates # <<>>
        /\ \A k \in DOMAIN CalledCandidates : Failed(k))
        => /\ result.outcome \in {"running", "False"}
           /\ Idle => result.outcome = "False"
           /\ \A i \in DOMAIN log : log[i].kind = "conditions"
           /\ current_state = result.pre_current
           /\ model_state = result.pre_model

\* two candidates, each with a guard that returned false: the call ended false
C5_Witness ==
    /\ Ended
    /\ result.outcome = "False"
    /\ Len(CalledCandidates) = 2
    /\ Failed(1) /\ Failed(2)

-----------------------------------------------------------------------------
(* C6 *)

\* C6: the guards called for one candidate are the first ones of its list, in
\* list order, and only the last of them may have returned anything but true;
\* a candidate for which a callback ran, and every candidate tried before
\* another one, had its own guards called from the first one on, whatever the
\* same identifiers returned for an earlier candidate
C6_GuardsShortCircuit ==
    Called =>
        \A k \in DOMAIN CalledCandidates :
            LET g == LogOf(k, {"conditions"})
                conditions == CalledCandidates[k].conditions
            IN /\ Len(g) <= Len(conditions)
               /\ \A i \in DOMAIN g : g[i].func = conditions[i]
               /\ \A i \in DOMAIN g : i < Len(g) => g[i].ret = "True"
               /\ LogOf(k, CallbackKinds) # <<>> => Passed(k)
               /\ (\E i \in DOMAIN log : log[i].cand > k) => Failed(k)

\* two candidates with the guards g1, g2: g1 was called for the first, which
\* g2 then refused, and g1 was called again for the second
C6_Witness ==
    /\ Called
    /\ Len(CalledCandidates) = 2
    /\ Funcs(LogOf(1, {"conditions"})) = <<"g1", "g2">>
    /\ log[1].ret = "True" /\ log[2].ret = "False"
    /\ Len(log) = 3
    /\ log[3].func = "g1" /\ log[3].cand = 2 /\ log[3].ret = "False"

-----------------------------------------------------------------------------
(* C7 *)

\* C7: a guard or callback that raises is the last call of the trigger call,
\* which ends with that failure; the current state and model.state are still
\* those of before the call when a guard, a before- or an exit-callback
\* raised, and are the destination when an enter- or after-callback raised
C7_FailurePropagates ==
    /\ (Called /\ result.outcome = "CallbackError")
          => (log # <<>> /\ log[Len(log)].ret = "raise")
    /\ \A i \in DOMAIN log :
          log[i].ret = "raise" =>
              LET t == CalledCandidates[log[i].cand]
              IN /\ i = Len(log)
                 /\ Idle
                 /\ result.outcome = "CallbackError"
                 /\ log[i].kind \in {"conditions", "before", "exit"}
                       => /\ current_state = result.pre_current
                          /\ model_state = result.pre_model
                 /\ log[i].kind \in {"enter", "after"}
                       => /\ current_state = states[t.dest]
                          /\ model_state = t.dest

\* an enter callback raised with a second candidate left untried: the machine
\* is in the destination
C7_Witness ==
    /\ Ended
    /\ result.outcome = "CallbackError"
    /\ log[Len(log)].kind = "enter"
    /\ log[Len(log)].cand < Len(CalledCandidates)
    /\ current_state # result.pre_current
    /\ model_state = CalledCandidates[log[Len(log)].cand].dest

-----------------------------------------------------------------------------
(* C8 *)

AllNames == {Solid, Liquid, HotGas, Plasma, Star}

\* the Transitions filed under source s for the trigger, before and after a step
FiledBefore(trigger, s) ==
    IF trigger \in DOMAIN events THEN TransitionsFor(events[trigger], s) ELSE <<>>
FiledAfter(trigger, s) ==
    IF trigger \in DOMAIN events' THEN TransitionsFor(events'[trigger], s) ELSE <<>>

\* C8: an add_transition call with source '*' appends, for every state
\* registered at the call, exactly one Transition to those filed under that
\* state for the trigger, with that state as source and the given destination,
\* and files nothing under any other name; registering a state afterwards
\* changes no Event, so the new state has no Transition of that call
C8_WildcardExpansion ==
    [][ /\ \A d \in Descriptors :
              (/\ d.source = Str(Star)
               /\ add_transition(d.trigger, d.source, d.dest, d.conditions,
                                 d.before, d.after))
              => \A s \in AllNames :
                    LET old == FiledBefore(d.trigger, s)
                        new == FiledAfter(d.trigger, s)
                    IN IF s \in DOMAIN states
                       THEN /\ Len(new) = Len(old) + 1
                            /\ SubSeq(new, 1, Len(old)) = old
                            /\ new[Len(new)].source = s
                            /\ new[Len(new)].dest = d.dest
                       ELSE new = old
        /\ (Idle /\ result'.op = "register") => events' = events
      ]_vars

\* heat_up was added with source '*' while solid and liquid were the
\* registered states; hot_gas was registered later, the machine put in it,
\* and heat_up called there raised the invalid-trigger error
C8_Witness ==
    /\ Ended
    /\ result.name = HeatUp
    /\ result.outcome = "MachineError"
    /\ PreName = HotGas
    /\ HotGas \in DOMAIN states
    /\ Keys(events[HeatUp]) = {Solid, Liquid}
    /\ Len(events[HeatUp].transitions[Solid]) = 1
    /\ events[HeatUp].transitions[Solid][1].conditions = <<"g1">>
    /\ Len(events[HeatUp].transitions[Liquid]) = 1
    /\ events[HeatUp].transitions[Liquid][1].dest = HotGas

-----------------------------------------------------------------------------
(* C9 *)

\* C9: resolving before_<trigger> or after_<trigger> for a registered trigger
\* returns a function that registers a callback identifier with the Event
C9_ResolverRegisters ==
    (/\ result.op = "getattr"
     /\ result.name[1] \in {"before", "after"}
     /\ SubSeq(result.name, 2, Len(result.name)) \in DOMAIN events)
        => /\ result.outcome = "partial"
           /\ pending # <<>>

-----------------------------------------------------------------------------
(* C10 *)

\* C10: resolving before_<t> or after_<t> for a trigger t with no Event raises
\* the event-not-registered error, resolving on_enter_<s> or on_exit_<s> for
\* an unregistered state s raises the lookup error, and in both cases no
\* function is returned and the registries and all callback lists are unchanged
C10_UnregisteredResolution ==
    [][ (Idle /\ result'.op = "getattr") =>
            LET terms == result'.name
                Unchanged == /\ pending' = <<>>
                             /\ UNCHANGED <<state_objs, states, events, lists>>
            IN /\ (/\ terms[1] \in {"before", "after"}
                   /\ SubSeq(terms, 2, Len(terms)) \notin DOMAIN events)
                      => result'.outcome = "MachineError" /\ Unchanged
               /\ (/\ Len(terms) > 2
                   /\ terms[1] = "on"
                   /\ terms[2] \in {"enter", "exit"}
                   /\ SubSeq(terms, 3, Len(terms)) \notin DOMAIN states)
                      => result'.outcome = "ValueError" /\ Unchanged
      ]_vars

\* after_heat_up was resolved while only melt was registered and failed
C10_WitnessEvent ==
    /\ result.op = "getattr"
    /\ result.name = <<"after", "heat", "up">>
    /\ result.outcome = "MachineError"
    /\ DOMAIN events = {Melt}
    /\ pending = <<>>

-----------------------------------------------------------------------------
(* C11 *)

IsPrefix(a, b) == Len(a) <= Len(b) /\ SubSeq(b, 1, Len(a)) = a

\* C11: calling a function that on_enter_<state> or on_exit_<state> returned
\* appends the identifier to the end of that State's enter or exit list and
\* changes no other list, so the identifiers given when the State was made
\* stay in front; and an execute that is about to return true has called the
\* identifiers of the candidate's before list, of the source's exit list, of
\* the destination's enter list and of its after list, each list in its
\* order and each identifier once for each time the list holds it
C11_CallbacksInOrderOnce ==
    [][ /\ (Idle /\ pending # <<>> /\ result'.op = "call_partial"
                 /\ result'.outcome = "ok")
              => LET p == pending[1]
                     old == state_objs[p.obj]
                     new == state_objs'[p.obj]
                 IN /\ \E func \in RegisteredLater :
                          IF p.trigger = "enter"
                          THEN /\ new.on_enter = Append(old.on_enter, func)
                               /\ new.on_exit = old.on_exit
                          ELSE /\ new.on_exit = Append(old.on_exit, func)
                               /\ new.on_enter = old.on_enter
                    /\ \A o \in DOMAIN state_objs :
                          o # p.obj => state_objs'[o] = state_objs[o]
                    /\ lists' = lists
        /\ \A o \in DOMAIN state_objs :
              /\ IsPrefix(InitialObjects[o].on_enter, state_objs[o].on_enter)
              /\ IsPrefix(InitialObjects[o].on_exit, state_objs[o].on_exit)
        /\ (stack # <<>> /\ stack' = <<>> /\ result'.outcome = "True")
              => LET f == stack[1]
                     t == TransitionsFor(events[f.event], f.state_name)[f.cand]
                 IN /\ Funcs(LogOf(f.cand, {"before"})) = lists[t.before]
                    /\ Funcs(LogOf(f.cand, {"exit"}))
                           = state_objs[states[t.source]].on_exit
                    /\ Funcs(LogOf(f.cand, {"enter"}))
                           = state_objs[states[t.dest]].on_enter
                    /\ Funcs(LogOf(f.cand, {"after"})) = lists[t.after]
      ]_vars

\* cb was registered through on_enter_liquid after liquid was made with e1;
\* melt then moved the machine into liquid and called b1, x1, e1, cb, a1
C11_Witness ==
    /\ Ended
    /\ result.outcome = "True"
    /\ state_objs[2].on_enter = <<"e1", "cb">>
    /\ Funcs(log) = <<"b1", "x1", "e1", "cb", "a1">>

-----------------------------------------------------------------------------
(* C12 *)

\* C12: the Machine's current state is a State, and one that the Machine's
\* state registry holds
C12_CurrentRegistered ==
    /\ current_state \in DOMAIN state_objs
    /\ \E name \in DOMAIN states : states[name] = current_state

-----------------------------------------------------------------------------
(* C13 *)

\* C13: every source name under which a Transition is filed in an Event is
\* the name of a registered State
C13_SourcesRegistered ==
    \A e \in DOMAIN events : Keys(events[e]) \subseteq DOMAIN states

-----------------------------------------------------------------------------
(* C14 *)

\* C14: a Machine made with send_event set calls its guards and callbacks with
\* the EventData of the trigger call, and one made with send_event clear calls
\* them with the arguments of the trigger call
C14_SendEventControlsArguments ==
    \A i \in DOMAIN log :
        log[i].passed = IF send_event THEN <<"EventData">> ELSE log[i].call

-----------------------------------------------------------------------------
(* C15 *)

\* C15: add_transition calls with the same trigger name use one Event.  A call
\* leaves every other Event as it was; when the name is already registered the
\* model gets no new attribute and every sequence filed under the Event is
\* kept as a prefix of the new one; and the candidates of a source state are
\* filed in the order the calls made them.
C15_SingleEvent ==
    [][events' # events =>
        LET e == result'.name IN
        /\ result'.op = "add_transition"
        /\ DOMAIN events' = DOMAIN events \cup {e}
        /\ TriggerAttr(e) \in model_attrs'
        /\ \A n \in DOMAIN events \ {e} : events'[n] = events[n]
        /\ e \in DOMAIN events =>
              /\ model_attrs' = model_attrs
              /\ events'[e].name = events[e].name
              /\ \A s \in Keys(events[e]) :
                    /\ s \in Keys(events'[e])
                    /\ IsPrefix(events[e].transitions[s],
                                events'[e].transitions[s])
        /\ \A s \in Keys(events'[e]) :
              LET ts == events'[e].transitions[s]
              IN \A i, j \in DOMAIN ts : i < j => ts[i].id < ts[j].id]_vars

\* two calls with the trigger melt have filed two candidates under solid
C15_Witness ==
    /\ result.op = "add_transition"
    /\ result.name = Melt
    /\ Melt \in DOMAIN events
    /\ Solid \in Keys(events[Melt])
    /\ Len(events[Melt].transitions[Solid]) = 2
    /\ events[Melt].transitions[Solid][1].id = 1
    /\ events[Melt].transitions[Solid][2].id = 2

-----------------------------------------------------------------------------
(* C16 *)

\* a step of a trigger call: the call itself, or a step made while it runs
TriggerStep == stack # <<>> \/ result'.op = "trigger"

\* C16: no step of a trigger call, whether the call goes on, returns true,
\* returns false or raises, changes the state registry, a State's enter or exit
\* list, the event registry with the Transitions filed in it and their guards,
\* a before or after list, or the attributes bound on the model; a step changes
\* the current state and model.state together or not at all.
C16_TriggerFrame ==
    [][TriggerStep =>
        /\ UNCHANGED <<states, state_objs, events, lists, model_attrs, send_event>>
        /\ (current_state' # current_state \/ model_state' # model_state) =>
              /\ current_state' = states[Candidate(Top).dest]
              /\ model_state' = Candidate(Top).dest]_vars

\* a trigger has moved the machine, then failed, with its configuration whole
C16_Witness ==
    /\ Ended
    /\ result.outcome = "CallbackError"
    /\ current_state # result.pre_current
    /\ log[Len(log)].kind = "after"
    /\ Len(lists) > 0
    /\ DOMAIN events = {Melt, HeatUp}

-----------------------------------------------------------------------------
(* C17 *)

\* C17: an execute never gets past its set-state step with a destination that
\* is not registered; and a trigger that ended with the lookup error was
\* executing a candidate, tried after candidates whose guards failed, whose own
\* guards all passed and whose destination is not registered: the current state
\* and model.state are what they were before the call, no enter- or
\* after-callback was called, and the candidate's before list and its source's
\* exit list were called through.
C17_UnregisteredDestination ==
    /\ (~Idle /\ Running(Top) /\ Top.phase \in {"enter", "after", "return"}) =>
          Candidate(Top).dest \in DOMAIN states
    /\ (Ended /\ result.outcome = "ValueError") =>
          /\ current_state = result.pre_current
          /\ model_state = result.pre_model
          /\ \A i \in DOMAIN log : log[i].kind \notin {"enter", "after"}
          /\ \E k \in DOMAIN CalledCandidates :
                LET t == CalledCandidates[k] IN
                /\ \A j \in 1..(k - 1) : Failed(j)
                /\ \A i \in DOMAIN log : log[i].cand <= k
                /\ Passed(k)
                /\ t.dest \notin DOMAIN states
                /\ t.source = PreName
                /\ Funcs(LogOf(k, {"before"})) = lists[t.before]
                /\ Funcs(LogOf(k, {"exit"})) = state_objs[states[t.source]].on_exit

\* melt to the unregistered hot_gas: both guards passed, the before-callback
\* and solid's exit-callback ran, and the machine is still solid
C17_Witness ==
    /\ Ended
    /\ result.name = Melt
    /\ result.outcome = "ValueError"
    /\ Funcs(log) = <<"g1", "g2", "b2", "x1">>
    /\ is_state(Solid)
    /\ model_state = Solid
    /\ HotGas \notin DOMAIN states

-----------------------------------------------------------------------------
(* A trigger called from inside a callback *)

\* the one re-entrant call of the log, when there is just one
ReenterAt == CHOOSE r \in DOMAIN log : log[r].ret = "reenter"

\* the trigger called from the model has made one re-entrant call so far, from
\* a callback of one of the given kinds
OneReentry(kinds) ==
    /\ Called
    /\ Reentries = 1
    /\ log[ReenterAt].kind \in kinds

\* the Transition whose callback made the call, and the trigger it called
Outer == CalledCandidates[log[ReenterAt].cand]
NestedEvent == log[ReenterAt].reenter

\* the calls made at the given depth for candidate k, in the order made
CallsAt(depth, k) ==
    SelectSeq(log, LAMBDA en : /\ en.depth = depth
                               /\ en.cand = k
                               /\ en.kind # "returned")

\* where the nested trigger's return is written down
NestedReturns == {q \in DOMAIN log : log[q].kind = "returned"}

-----------------------------------------------------------------------------
(* C18 *)

\* C18: when an enter- or after-callback of a Transition calls a trigger, the
\* callback was called with the Transition's destination as the current state
\* and the nested trigger looks its candidates up under that destination,
\* failing with MachineError exactly when none is filed there; every call the
\* nested trigger makes comes directly after the callback's, in one block, and
\* the outer Transition calls its next callback only once the nested trigger
\* has returned; and when the outer trigger returns true it has made every
\* call of its own Transition, while the current state is the destination of
\* the candidate the nested trigger took (the outer destination if it took
\* none).
C18_NestedSeesDestination ==
    OneReentry({"enter", "after"}) =>
        LET r == ReenterAt
            under == Outer.dest
            cands == TransitionsFor(events[NestedEvent], under)
        IN /\ log[r].current = under
           /\ log[r].model = under
           /\ (under \notin Keys(events[NestedEvent]))
                 <=> (Idle /\ result.outcome = "MachineError")
           /\ Len(stack) = 2 =>
                 /\ stack[2].event = NestedEvent
                 /\ stack[2].state_name = under
                 /\ stack[1].phase = log[r].kind
                 /\ StepList(stack[1])[stack[1].i] = log[r].func
           /\ \A i \in DOMAIN log :
                 log[i].depth = 2 =>
                    /\ i > r
                    /\ \A j \in (r + 1)..i : log[j].depth = 2
                    /\ log[i].kind # "returned" =>
                          /\ log[i].cand \in DOMAIN cands
                          /\ cands[log[i].cand].source = under
           /\ \A i \in DOMAIN log :
                 (i > r /\ log[i].depth = 1) =>
                    /\ Len(stack) <= 1
                    /\ \E q \in NestedReturns : q < i
           /\ (Idle /\ NestedReturns # {}) =>
                 result.outcome \in {"True", "CallbackError"}
           /\ (Idle /\ result.outcome = "True") =>
                 /\ Funcs(CallsAt(1, log[r].cand)) = FullSequence(Outer)
                 /\ \E q \in NestedReturns :
                       IF log[q].ret = "True"
                       THEN /\ current_state = states[cands[log[q].cand].dest]
                            /\ model_state = cands[log[q].cand].dest
                            /\ Funcs(CallsAt(2, log[q].cand))
                                  = FullSequence(cands[log[q].cand])
                       ELSE /\ current_state = states[under]
                            /\ model_state = under

\* melt from solid to liquid, whose enter-callback e1 calls heat_up: heat_up
\* runs from liquid to hot_gas before melt's after-callback a1, and melt
\* returns true with the machine in hot_gas
C18_Witness ==
    /\ Ended
    /\ result.name = Melt
    /\ result.outcome = "True"
    /\ Funcs(log) = <<"b1", "x1", "e1", "g1", "b1", "b2", "x2", "e2", "a1", "", "a1">>
    /\ log[3].ret = "reenter"
    /\ log[3].reenter = HeatUp
    /\ model_state = HotGas
    /\ is_state(HotGas)

-----------------------------------------------------------------------------
(* C19 *)

\* C19: when a before-callback of a Transition calls a trigger that returns
\* true having moved the machine to a state that is neither the Transition's
\* source nor its destination, the outer Transition goes on with its own
\* endpoints: its exit-callbacks are called with that third state as the
\* current state, its enter- and after-callbacks with its own destination; the
\* outer trigger ends with true or with a failure of one of its steps, not
\* with false; and when it returns true the machine is in the outer
\* destination, the outer Transition has made every call of its sequence, and
\* the exit-callbacks called during the whole call are those of the source,
\* twice over, with none of the third state's.
C19_OuterKeepsEndpoints ==
    OneReentry({"before"}) =>
        LET r == ReenterAt
            cands == TransitionsFor(events[NestedEvent], Outer.source)
        IN /\ log[r].current = Outer.source
           /\ \A q \in NestedReturns :
                 (/\ log[q].ret = "True"
                  /\ cands[log[q].cand].dest \notin {Outer.source, Outer.dest}) =>
                    LET third == cands[log[q].cand].dest
                        on_exit == state_objs[states[Outer.source]].on_exit
                        exits == SelectSeq(log, LAMBDA en : en.kind = "exit")
                    IN /\ \A i \in DOMAIN log :
                             (i > q /\ log[i].kind = "exit") =>
                                /\ log[i].current = third
                                /\ log[i].model = third
                       /\ \A i \in DOMAIN log :
                             (i > q /\ log[i].kind \in {"enter", "after"}) =>
                                /\ log[i].current = Outer.dest
                                /\ log[i].model = Outer.dest
                       /\ Idle => result.outcome \in {"True", "CallbackError", "ValueError"}
                       /\ (Idle /\ result.outcome = "ValueError") =>
                             Outer.dest \notin DOMAIN states
                       /\ (Idle /\ result.outcome = "True") =>
                             /\ current_state = states[Outer.dest]
                             /\ model_state = Outer.dest
                             /\ Funcs(CallsAt(1, log[r].cand)) = FullSequence(Outer)
                             /\ Funcs(exits) = on_exit \o on_exit
                             /\ \A i \in DOMAIN exits : exits[i].cand \in DOMAIN cands

\* melt from solid to hot_gas, whose before-callback b2 calls melt: the nested
\* melt goes to liquid, then the outer one calls solid's exit-callback x1 again,
\* none of liquid's, and returns true with the machine in hot_gas
C19_Witness ==
    /\ Ended
    /\ result.name = Melt
    /\ result.outcome = "True"
    /\ Funcs(log) = <<"g1", "g2", "b2", "g1", "b1", "x1", "e1", "a1", "", "x1", "e2">>
    /\ log[3].ret = "reenter"
    /\ log[8].model = Liquid
    /\ log[10].current = Liquid
    /\ state_objs[states[Liquid]].on_exit = <<"x2">>
    /\ model_state = HotGas

-----------------------------------------------------------------------------
(* C20 *)

\* the Transitions filed in the machine
AllTransitions ==
    UNION {{events[e].transitions[source][k] :
               k \in DOMAIN events[e].transitions[source]} :
           <<e, source>> \in {es \in (DOMAIN events) \X AllNames :
                                 es[2] \in Keys(events[es[1]])}}

\* C20: a call of Transition.add_callback changes the before or after list of
\* one Transition only: no step changes a callback list of two Transitions
C20_OnlyThatTransition ==
    [][\A t, u \in AllTransitions :
          (/\ t.id # u.id
           /\ lists'[t.before] # lists[t.before] \/ lists'[t.after] # lists[t.after])
          => /\ lists'[u.before] = lists[u.before]
             /\ lists'[u.after] = lists[u.after]]_vars

====
